---- MODULE Spec2Model ----
(***************************************************************************)
(* Extended isolation forest (src/src/lib.rs): training (Forest::from_slice,*)
(* Tree::new, make_node) and scoring (Forest::score,                        *)
(* Forest::score_with_recursion_cap, path_length_recurse).                  *)
(*                                                                          *)
(* Numbers.  Coordinates of type T are integers on a grid: training         *)
(* coordinates are multiples of Grid, so that the open interval between two *)
(* distinct training coordinates holds a grid value for the intercept.      *)
(* f64 values are modelled as records                                       *)
(*      [k |-> "nan"], [k |-> "inf", s |-> 1 or -1], [k |-> "fin", v |-> i] *)
(* where i counts units of 1/Scale, and the result of 2.0.powf(x) as        *)
(* [k |-> "pow2", e |-> x] for an exponent x inside the f64 range.          *)
(*                                                                          *)
(* Randomness.  rand::thread_rng() is seeded from operating-system entropy, *)
(* so every draw is a nondeterministic choice: make_node and from_slice     *)
(* return the SET of values the draws can produce.                          *)
(*                                                                          *)
(* Every node carries a history field `samples`: the set of indices (into   *)
(* training_data) of the slice make_node was called with.  The code keeps   *)
(* only its length (ExNode::num_samples).                                   *)
(***************************************************************************)
EXTENDS Integers, FiniteSets, Sequences, TLC

----------------------------------------------------------------------------
(* Bounds of the model.  MaxCells admits N = 1 with four points and N = 2   *)
(* with two; MaxDraws admits one tree of two samples or two of one.         *)

MaxCells == 4   \* coordinates in the training set: N * training_data.len()
MaxDraws == 2   \* samples drawn by one training call: n_trees * sample_size
MaxDepth == 2   \* largest explicit options.max_tree_depth
MaxCap == 2     \* largest explicit max_depth of score_with_recursion_cap

Grid == 1 + 1
Scale == 100 * 100

None == [k |-> "none"]
Some(x) == [k |-> "some", v |-> x]

\* the instantiations of the const generic N
Dimensions == {0, 1, 2}
\* training coordinates; the values between them, which the intercepts take;
\* the coordinates of the points scored
TrainCoords == {0, Grid}
GridValues == 0..Grid
QueryCoords == GridValues
NormalValues == {0 - 1, 1}

Points(dim, coords) == [1..dim -> coords]

----------------------------------------------------------------------------
(* f64 arithmetic *)

NaN == [k |-> "nan"]
Inf(sgn) == [k |-> "inf", s |-> sgn]
Fin(i) == [k |-> "fin", v |-> i]

Sign(i) == IF i < 0 THEN 0 - 1 ELSE IF i > 0 THEN 1 ELSE 0

FNeg(a) ==
    CASE a.k = "nan" -> NaN
      [] a.k = "inf" -> Inf(0 - a.s)
      [] OTHER -> Fin(0 - a.v)

FAdd(a, b) ==
    CASE a.k = "nan" \/ b.k = "nan" -> NaN
      [] a.k = "inf" /\ b.k = "inf" -> IF a.s = b.s THEN a ELSE NaN
      [] a.k = "inf" -> a
      [] b.k = "inf" -> b
      [] OTHER -> Fin(a.v + b.v)

FSub(a, b) == FAdd(a, FNeg(b))

FMul(a, b) ==
    CASE a.k = "nan" \/ b.k = "nan" -> NaN
      [] a.k = "inf" /\ b.k = "inf" -> Inf(a.s * b.s)
      [] a.k = "inf" -> IF b.v = 0 THEN NaN ELSE Inf(a.s * Sign(b.v))
      [] b.k = "inf" -> IF a.v = 0 THEN NaN ELSE Inf(b.s * Sign(a.v))
      [] OTHER -> Fin((a.v * b.v) \div Scale)

FDiv(a, b) ==
    CASE a.k = "nan" \/ b.k = "nan" -> NaN
      [] a.k = "inf" /\ b.k = "inf" -> NaN
      [] a.k = "inf" -> Inf(a.s * (IF b.v < 0 THEN 0 - 1 ELSE 1))
      [] b.k = "inf" -> Fin(0)
      [] b.v = 0 -> IF a.v = 0 THEN NaN ELSE Inf(Sign(a.v))
      [] OTHER -> Fin((a.v * Scale) \div b.v)

\* n as f64
AsF64(n) == Fin(n * Scale)

\* f64::ceil followed by `as usize` (a saturating cast: NaN and negatives give 0)
CeilAsUsize(a) ==
    CASE a.k = "nan" -> 0
      [] a.k = "inf" -> 0
      [] a.v <= 0 -> 0
      [] OTHER -> (a.v + Scale - 1) \div Scale

\* natural logarithm in units of 1/Scale, for the arguments the model reaches
LnTable == <<0, 6931, 10986, 13863, 16094, 17918, 19459, 20794>>

\* f64::log(self, E): NaN below zero, -inf at zero
FLn(a) ==
    CASE a.k = "nan" -> NaN
      [] a.k = "inf" -> IF a.s = 1 THEN a ELSE NaN
      [] a.v < 0 -> NaN
      [] a.v = 0 -> Inf(0 - 1)
      [] OTHER -> Fin(LnTable[a.v \div Scale])

\* smallest n with 2^n >= m, for m >= 1
RECURSIVE CeilLog2Nat(_)
CeilLog2Nat(m) == IF m <= 1 THEN 0 ELSE 1 + CeilLog2Nat((m + 1) \div 2)

\* (x as f64).log2().ceil() as usize: log2(0) = -inf casts to 0
CeilLog2AsUsize(x) == IF x = 0 THEN 0 ELSE CeilLog2Nat(x)

\* 2.0_f64.powf(x)
MinExp == 0 - 1075
MaxExp == 1024
Powf2(x) ==
    CASE x.k = "nan" -> NaN
      [] x.k = "inf" -> IF x.s = 1 THEN Inf(1) ELSE Fin(0)
      [] x.v < MinExp * Scale -> Fin(0)
      [] x.v >= MaxExp * Scale -> Inf(1)
      [] OTHER -> [k |-> "pow2", e |-> x.v]

----------------------------------------------------------------------------
(* c_factor, determinate_direction *)

EulerGamma == 5772

c_factor(n) ==
    FSub(FMul(AsF64(2), FAdd(FLn(FSub(AsF64(n), AsF64(1))), Fin(EulerGamma))),
         FDiv(FMul(AsF64(2), FSub(AsF64(n), AsF64(1))), AsF64(n)))

RECURSIVE DotFold(_, _, _, _)
DotFold(sample, n, p, i) ==
    IF i = 0 THEN 0
    ELSE DotFold(sample, n, p, i - 1) + (sample[i] - p[i]) * n[i]

determinate_direction(sample, n, p) ==
    LET direction_value == DotFold(sample, n, p, Len(sample))
    IN  IF direction_value <= 0 THEN "Left" ELSE "Right"

----------------------------------------------------------------------------
(* make_node *)

ExNode(samples) ==
    [kind |-> "Ex", num_samples |-> Cardinality(samples), samples |-> samples]

InNode(l, r, n, p, samples) ==
    [kind |-> "In", left |-> l, right |-> r, n |-> n, p |-> p, samples |-> samples]

Max(S) == CHOOSE x \in S : \A y \in S : y <= x
Min(S) == CHOOSE x \in S : \A y \in S : x <= y

\* lines 281-305: the intercepts the draws can produce; Uniform::new(min, max)
\* samples the half-open range [min, max)
Intercepts(data, samples, dim) ==
    LET mins == [i \in 1..dim |-> Min({data[s][i] : s \in samples})]
        maxs == [i \in 1..dim |-> Max({data[s][i] : s \in samples})]
    IN  {p \in [1..dim -> GridValues] :
            \A i \in 1..dim :
                IF mins[i] = maxs[i] THEN p[i] = mins[i]
                ELSE p[i] \in mins[i]..(maxs[i] - 1)}

\* lines 312-318: the sparse normal vectors the draws can produce
Normals(dim, extension_level) ==
    LET active_dims == extension_level + 1
    IN  UNION {
          {n \in [1..dim -> NormalValues \cup {0}] :
              \A i \in 1..dim : (n[i] # 0) <=> (i \in idx)} :
          idx \in {s \in SUBSET (1..dim) : Cardinality(s) = active_dims}}

\* Route with boundary samples (direction value 0) pushed to neither side
RouteDropBoundary(data, samples, n, p) ==
    [left |-> {s \in samples : DotFold(data[s], n, p, Len(data[s])) < 0},
     right |-> {s \in samples : DotFold(data[s], n, p, Len(data[s])) > 0}]

\* lines 320-328: samples_left and samples_right
Route(data, samples, n, p) ==
    [left |-> {s \in samples : determinate_direction(data[s], n, p) = "Left"},
     right |-> {s \in samples : determinate_direction(data[s], n, p) = "Right"}]

\* Terminal with the size test off by one: two samples are not split
TerminalAtTwo(current_tree_depth, max_tree_depth, num_samples) ==
    current_tree_depth >= max_tree_depth \/ num_samples <= 2

\* Terminal with the depth test off by one
TerminalDeeper(current_tree_depth, max_tree_depth, num_samples) ==
    current_tree_depth > max_tree_depth \/ num_samples <= 1

\* line 276
Terminal(current_tree_depth, max_tree_depth, num_samples) ==
    current_tree_depth >= max_tree_depth \/ num_samples <= 1

RECURSIVE make_node(_, _, _, _, _, _)
make_node(data, dim, samples, current_tree_depth, max_tree_depth, extension_level) ==
    LET num_samples == Cardinality(samples)
    IN  IF Terminal(current_tree_depth, max_tree_depth, num_samples)
        THEN {ExNode(samples)}
        ELSE UNION {
               UNION {
                 {InNode(l, r, n, p, samples) :
                    l \in make_node(data, dim, Route(data, samples, n, p).left,
                                    current_tree_depth + 1, max_tree_depth,
                                    extension_level),
                    r \in make_node(data, dim, Route(data, samples, n, p).right,
                                    current_tree_depth + 1, max_tree_depth,
                                    extension_level)} :
                 n \in Normals(dim, extension_level)} :
               p \in Intercepts(data, samples, dim)}

Tree_new(data, dim, samples, max_tree_depth, extension_level) ==
    {[root |-> r] :
        r \in make_node(data, dim, samples, 0, max_tree_depth, extension_level)}

----------------------------------------------------------------------------
(* path_length_recurse, Tree::path_length_with_cap *)

\* CapReached off by one
CapReachedLate(depth, max_depth) == depth > max_depth

\* line 238
CapReached(depth, max_depth) == depth >= max_depth

\* lines 243-249
ExternalLength(num_samples) ==
    IF num_samples <= 1 THEN Fin(0) ELSE c_factor(num_samples)

\* SelectChild sending boundary points (direction value 0) right
SelectChildStrict(node, values) ==
    IF DotFold(values, node.n, node.p, Len(values)) < 0
    THEN node.left ELSE node.right

\* lines 252-255
SelectChild(node, values) ==
    IF determinate_direction(values, node.n, node.p) = "Left"
    THEN node.left ELSE node.right

RECURSIVE path_length_recurse(_, _, _, _)
path_length_recurse(node, values, depth, max_depth) ==
    IF CapReached(depth, max_depth) THEN Fin(0)
    ELSE IF node.kind = "Ex" THEN ExternalLength(node.num_samples)
    ELSE FAdd(AsF64(1),
              path_length_recurse(SelectChild(node, values), values,
                                  depth + 1, max_depth))

path_length_with_cap(tree, values, max_depth) ==
    path_length_recurse(tree.root, values, 0, max_depth)

----------------------------------------------------------------------------
(* Forest *)

Err(e) == [k |-> "err", error |-> e]
Ok(f) == [k |-> "ok", forest |-> f]

ForestOptions ==
    {o \in [n_trees : 0..MaxDraws,
            sample_size : 0..(MaxCells + 1),
            max_tree_depth : {None} \cup {Some(d) : d \in 0..MaxDepth},
            extension_level : 0..MaxCells] :
        o.n_trees * o.sample_size <= MaxDraws}

\* Validate asking for more training data than sample_size
ValidateStrict(len, dim, opts) ==
    IF len <= opts.sample_size \/ dim = 0 THEN "InsufficientTrainingData"
    ELSE IF opts.extension_level > dim - 1 THEN "ExtensionLevelExceedsDimensions"
    ELSE "valid"

\* Validate letting extension_level = N through
ValidateLoose(len, dim, opts) ==
    IF len < opts.sample_size \/ dim = 0 THEN "InsufficientTrainingData"
    ELSE IF opts.extension_level > dim THEN "ExtensionLevelExceedsDimensions"
    ELSE "valid"

\* lines 122-126
Validate(len, dim, opts) ==
    IF len < opts.sample_size \/ dim = 0 THEN "InsufficientTrainingData"
    ELSE IF opts.extension_level > dim - 1 THEN "ExtensionLevelExceedsDimensions"
    ELSE "valid"

\* lines 128-132
ResolveMaxTreeDepth(opts) ==
    IF opts.max_tree_depth.k = "some" THEN opts.max_tree_depth.v
    ELSE CeilLog2AsUsize(opts.sample_size)

\* slice::choose_multiple(rng, amount): `amount` distinct elements
choose_multiple(indices, amount) ==
    {S \in SUBSET indices : Cardinality(S) = amount}

from_slice(data, dim, opts) ==
    LET v == Validate(Len(data), dim, opts)
    IN  IF v # "valid" THEN {Err(v)}
        ELSE LET max_tree_depth == ResolveMaxTreeDepth(opts)
                 candidates ==
                     UNION {Tree_new(data, dim, tree_sample, max_tree_depth,
                                     opts.extension_level) :
                            tree_sample \in choose_multiple(1..Len(data),
                                                            opts.sample_size)}
             IN  {Ok([avg_path_length_c |-> c_factor(opts.sample_size),
                      trees |-> ts]) :
                    ts \in [1..opts.n_trees -> candidates]}

RECURSIVE FSum(_, _)
FSum(xs, i) == IF i = 0 THEN Fin(0) ELSE FAdd(FSum(xs, i - 1), xs[i])

PathLengths(forest, values, max_depth) ==
    [t \in 1..Len(forest.trees) |->
        path_length_with_cap(forest.trees[t], values, max_depth)]

score_with_recursion_cap(forest, values, max_depth) ==
    LET paths == PathLengths(forest, values, max_depth)
        path_length == FSum(paths, Len(paths))
        eh == FDiv(path_length, AsF64(Len(forest.trees)))
    IN  Powf2(FDiv(FNeg(eh), forest.avg_path_length_c))

DefaultCap(forest) == CeilAsUsize(forest.avg_path_length_c) * 2

score(forest, values) ==
    score_with_recursion_cap(forest, values, DefaultCap(forest))

----------------------------------------------------------------------------
(* The state machine: one training call, then any number of scoring calls *)

VARIABLES
    N,              \* the const generic N of Forest<T, N>
    training_data,  \* the slice handed to from_slice
    probe,          \* the point the caller scores
    options,        \* the ForestOptions handed to from_slice (None before the call)
    result,         \* what from_slice returned (None before the call)
    last,           \* the latest scoring call (None before the first)
    first,          \* history: the first call of score (None before it)
    between,        \* history: a call with another cap was made after `first`
    retrained,      \* what a second from_slice call on the same input returned
    pc,             \* recursion, step by step: where the caller is
    stack,          \* recursion, step by step: the frames of make_node
    walk,           \* recursion, step by step: the frames of path_length_recurse
    ret,            \* recursion, step by step: the value the last call returned
    tree            \* recursion, step by step: the tree Tree::new returned

inputVars == <<N, training_data, probe>>
callVars == <<options, result, last, first, between, retrained>>
stepVars == <<pc, stack, walk, ret, tree>>
vars == <<inputVars, callVars, stepVars>>

\* position of a point in the lexicographic order
RECURSIVE Rank(_, _)
Rank(pt, i) == IF i = 0 THEN 0 ELSE Rank(pt, i - 1) * (Grid + 1) + pt[i]

\* from_slice treats its slice as a multiset (choose_multiple draws from it at
\* random), so one ordering per multiset is enough
Sorted(data) ==
    \A i \in 1..(Len(data) - 1) :
        Rank(data[i], Len(data[i])) <= Rank(data[i + 1], Len(data[i + 1]))

Init ==
    /\ N \in Dimensions
    /\ training_data \in UNION {[1..len -> Points(N, TrainCoords)] :
                                    len \in {l \in 0..MaxCells : N * l <= MaxCells}}
    /\ Sorted(training_data)
    /\ probe \in Points(N, QueryCoords)
    /\ options = None
    /\ result = None
    /\ last = None
    /\ first = None
    /\ between = FALSE
    /\ retrained = None
    /\ pc = "idle"
    /\ stack = <<>>
    /\ walk = <<>>
    /\ ret = None
    /\ tree = None

\* the options a caller passes: every way to fail each check, and every valid one
CallerOptions ==
    {o \in ForestOptions :
        o.sample_size <= Len(training_data) + 1 /\ o.extension_level <= N}

FromSlice ==
    /\ result = None
    /\ \E opts \in CallerOptions :
          /\ options' = opts
          /\ result' \in from_slice(training_data, N, opts)
    /\ UNCHANGED <<inputVars, last, first, between, retrained, stepVars>>

Call(op, values, max_depth) ==
    [k |-> "call", op |-> op, values |-> values, max_depth |-> max_depth,
     paths |-> PathLengths(result.forest, values, max_depth),
     value |-> IF op = "score" THEN score(result.forest, values)
               ELSE score_with_recursion_cap(result.forest, values, max_depth)]

\* a scoring call that keeps a running normaliser in the forest
ScoreStepMutating ==
    /\ result.k = "ok"
    /\ last' = Call("score", probe, DefaultCap(result.forest))
    /\ result' = [result EXCEPT !.forest.avg_path_length_c =
                      FSum(last'.paths, Len(last'.paths))]
    /\ UNCHANGED <<inputVars, options, retrained, stepVars>>

ScoreStep ==
    /\ result.k = "ok"
    /\ last' = Call("score", probe, DefaultCap(result.forest))
    /\ UNCHANGED <<inputVars, options, result, retrained, stepVars>>

ScoreWithRecursionCapStep ==
    /\ result.k = "ok"
    /\ \E max_depth \in 0..MaxCap :
          last' = Call("score_with_recursion_cap", probe, max_depth)
    /\ UNCHANGED <<inputVars, options, result, retrained, stepVars>>

Score == ScoreStep /\ UNCHANGED <<first, between>>

ScoreWithRecursionCap == ScoreWithRecursionCapStep /\ UNCHANGED <<first, between>>

Next == FromSlice \/ Score \/ ScoreWithRecursionCap

Spec == Init /\ [][Next]_vars

----------------------------------------------------------------------------
(* The same calls with the first call of score remembered *)

Remember ==
    /\ first' = IF first = None /\ last'.op = "score" THEN last' ELSE first
    /\ between' = (between \/ (first # None /\ last'.max_depth # first.max_depth))

ScoreRemembered == ScoreStep /\ Remember

ScoreWithRecursionCapRemembered == ScoreWithRecursionCapStep /\ Remember

NextRepeat == FromSlice \/ ScoreRemembered \/ ScoreWithRecursionCapRemembered

SpecRepeat == Init /\ [][NextRepeat]_vars

----------------------------------------------------------------------------
(* Two training calls on the same training data and options *)

FromSliceAgain ==
    /\ result # None
    /\ retrained = None
    /\ retrained' \in from_slice(training_data, N, options)
    /\ UNCHANGED <<inputVars, options, result, last, first, between, stepVars>>

NextRetrain == FromSlice \/ FromSliceAgain

SpecRetrain == Init /\ [][NextRetrain]_vars

----------------------------------------------------------------------------
(* Recursion step by step: Tree::new builds one tree, a call stack of        *)
(* make_node frames and one step per call, split and return; then            *)
(* Tree::path_length_with_cap walks it, one step per call and return.        *)

Top(s) == s[Len(s)]
Pop(s) == SubSeq(s, 1, Len(s) - 1)
ReplaceTop(s, f) == Append(Pop(s), f)

\* the arguments of a make_node call; `at` is the point the call has reached
MakeNodeFrame(samples, current_tree_depth, max_tree_depth, extension_level) ==
    [samples |-> samples, current_tree_depth |-> current_tree_depth,
     max_tree_depth |-> max_tree_depth, extension_level |-> extension_level,
     at |-> "entry", n |-> None, p |-> None, left |-> None]

\* the arguments of a path_length_recurse call
PathFrame(node, values, depth, max_depth) ==
    [node |-> node, values |-> values, depth |-> depth, max_depth |-> max_depth]

\* the step-by-step traversal is given the training points and one more point
InitSteps == Init /\ N >= 1 /\ probe = [i \in 1..N |-> 1]

WalkValues == {training_data[i] : i \in 1..Len(training_data)} \cup {probe}

\* lines 136-147: one iteration of the loop of from_slice, up to the call
TreeNew ==
    /\ pc = "idle"
    /\ \E opts \in CallerOptions :
          /\ Validate(Len(training_data), N, opts) = "valid"
          /\ opts.n_trees = 1
          /\ options' = opts
          /\ \E tree_sample \in choose_multiple(1..Len(training_data),
                                                opts.sample_size) :
                stack' = <<MakeNodeFrame(tree_sample, 0, ResolveMaxTreeDepth(opts),
                                         opts.extension_level)>>
    /\ pc' = "building"
    /\ UNCHANGED <<inputVars, result, last, first, between, retrained,
                   walk, ret, tree>>

\* lines 275-277
MakeNodeLeaf ==
    /\ pc = "building" /\ stack # <<>> /\ ret = None
    /\ Top(stack).at = "entry"
    /\ Terminal(Top(stack).current_tree_depth, Top(stack).max_tree_depth,
                Cardinality(Top(stack).samples))
    /\ ret' = ExNode(Top(stack).samples)
    /\ stack' = Pop(stack)
    /\ UNCHANGED <<inputVars, callVars, pc, walk, tree>>

\* lines 278-337: the draws, the partition and the call for the left child
MakeNodeSplit ==
    /\ pc = "building" /\ stack # <<>> /\ ret = None
    /\ Top(stack).at = "entry"
    /\ ~Terminal(Top(stack).current_tree_depth, Top(stack).max_tree_depth,
                 Cardinality(Top(stack).samples))
    /\ \E p \in Intercepts(training_data, Top(stack).samples, N),
          n \in Normals(N, Top(stack).extension_level) :
          stack' = Append(
              ReplaceTop(stack, [Top(stack) EXCEPT !.at = "left", !.n = n, !.p = p]),
              MakeNodeFrame(Route(training_data, Top(stack).samples, n, p).left,
                            Top(stack).current_tree_depth + 1,
                            Top(stack).max_tree_depth, Top(stack).extension_level))
    /\ UNCHANGED <<inputVars, callVars, pc, walk, ret, tree>>

\* lines 338-344: the left child returned, the call for the right child
MakeNodeRight ==
    /\ pc = "building" /\ stack # <<>> /\ ret # None
    /\ Top(stack).at = "left"
    /\ stack' = Append(
          ReplaceTop(stack, [Top(stack) EXCEPT !.at = "right", !.left = ret]),
          MakeNodeFrame(Route(training_data, Top(stack).samples,
                              Top(stack).n, Top(stack).p).right,
                        Top(stack).current_tree_depth + 1,
                        Top(stack).max_tree_depth, Top(stack).extension_level))
    /\ ret' = None
    /\ UNCHANGED <<inputVars, callVars, pc, walk, tree>>

\* lines 330-347: the right child returned, the Internal node is returned
MakeNodeReturn ==
    /\ pc = "building" /\ stack # <<>> /\ ret # None
    /\ Top(stack).at = "right"
    /\ ret' = InNode(Top(stack).left, ret, Top(stack).n, Top(stack).p,
                     Top(stack).samples)
    /\ stack' = Pop(stack)
    /\ UNCHANGED <<inputVars, callVars, pc, walk, tree>>

\* lines 219-221: Tree::new returns
TreeBuilt ==
    /\ pc = "building" /\ stack = <<>> /\ ret # None
    /\ tree' = [root |-> ret]
    /\ ret' = None
    /\ pc' = "built"
    /\ UNCHANGED <<inputVars, callVars, stack, walk>>

\* lines 224-226
PathLengthWithCap ==
    /\ pc = "built"
    /\ \E values \in WalkValues, max_depth \in 0..MaxCap :
          walk' = <<PathFrame(tree.root, values, 0, max_depth)>>
    /\ pc' = "walking"
    /\ UNCHANGED <<inputVars, callVars, stack, ret, tree>>

\* lines 238-249: the calls that return without recursing
PathLeaf ==
    /\ pc = "walking" /\ walk # <<>> /\ ret = None
    /\ \/ /\ CapReached(Top(walk).depth, Top(walk).max_depth)
          /\ ret' = Fin(0)
       \/ /\ ~CapReached(Top(walk).depth, Top(walk).max_depth)
          /\ Top(walk).node.kind = "Ex"
          /\ ret' = ExternalLength(Top(walk).node.num_samples)
    /\ walk' = Pop(walk)
    /\ UNCHANGED <<inputVars, callVars, pc, stack, tree>>

\* lines 250-259: the recursive call
PathRecurse ==
    /\ pc = "walking" /\ walk # <<>> /\ ret = None
    /\ ~CapReached(Top(walk).depth, Top(walk).max_depth)
    /\ Top(walk).node.kind = "In"
    /\ walk' = Append(walk, PathFrame(SelectChild(Top(walk).node, Top(walk).values),
                                      Top(walk).values, Top(walk).depth + 1,
                                      Top(walk).max_depth))
    /\ UNCHANGED <<inputVars, callVars, pc, stack, ret, tree>>

\* line 251: 1.0 + the value the recursive call returned
PathReturn ==
    /\ pc = "walking" /\ walk # <<>> /\ ret # None
    /\ ret' = FAdd(AsF64(1), ret)
    /\ walk' = Pop(walk)
    /\ UNCHANGED <<inputVars, callVars, pc, stack, tree>>

\* line 225: path_length_with_cap returns
PathDone ==
    /\ pc = "walking" /\ walk = <<>> /\ ret # None
    /\ pc' = "done"
    /\ UNCHANGED <<inputVars, callVars, stack, walk, ret, tree>>

NextSteps ==
    \/ TreeNew \/ MakeNodeLeaf \/ MakeNodeSplit \/ MakeNodeRight \/ MakeNodeReturn
    \/ TreeBuilt
    \/ PathLengthWithCap \/ PathLeaf \/ PathRecurse \/ PathReturn \/ PathDone

\* the code is sequential: a call that can take its next step takes it
SpecSteps == InitSteps /\ [][NextSteps]_vars /\ WF_vars(NextSteps)

----------------------------------------------------------------------------
(* Helpers of the properties *)

Built == result.k = "ok"
Trees == IF Built THEN result.forest.trees ELSE <<>>
Scored == last.k = "call"

\* every node of a subtree with its depth below the root
RECURSIVE NodesAt(_, _)
NodesAt(node, depth) ==
    {[node |-> node, depth |-> depth]} \cup
    (IF node.kind = "In"
     THEN NodesAt(node.left, depth + 1) \cup NodesAt(node.right, depth + 1)
     ELSE {})

AllNodes == UNION {NodesAt(Trees[t].root, 0) : t \in 1..Len(Trees)}

\* sum of num_samples over the External leaves of a subtree
RECURSIVE LeafSum(_)
LeafSum(node) ==
    IF node.kind = "Ex" THEN node.num_samples
    ELSE LeafSum(node.left) + LeafSum(node.right)

RECURSIVE Height(_)
Height(node) ==
    IF node.kind = "Ex" THEN 0
    ELSE 1 + (IF Height(node.left) >= Height(node.right)
              THEN Height(node.left) ELSE Height(node.right))

----------------------------------------------------------------------------
(* C2 *)

----------------------------------------------------------------------------
(* C3 *)

\* C3 as stated: from_slice returns Err(ExtensionLevelExceedsDimensions)
\* whenever extension_level > N - 1, whatever the training data and the other
\* options.
C3_AsStated ==
    (result # None /\ options.extension_level > N - 1)
        => result = Err("ExtensionLevelExceedsDimensions")

\* C3 amended: from_slice returns Err(ExtensionLevelExceedsDimensions) whenever
\* extension_level > N - 1 and the first check passes, that is N >= 1 and
\* training_data.len() >= sample_size.
C3_ExtensionLevelAfterFirstCheck ==
    (/\ result # None
     /\ options.extension_level > N - 1
     /\ N >= 1
     /\ Len(training_data) >= options.sample_size)
        => result = Err("ExtensionLevelExceedsDimensions")

C3_Witness ==
    /\ result = Err("ExtensionLevelExceedsDimensions")
    /\ options.extension_level = N
    /\ Len(training_data) >= 1

----------------------------------------------------------------------------
(* C6 *)

\* C6: in every built tree the two children of an Internal node were built
\* from disjoint sample sets whose union is the node's own sample set, the
\* num_samples of the leaves under any node sum to the number of samples the
\* node was built from, and at the root that number is options.sample_size.
C6_Partition ==
    /\ \A x \in AllNodes :
          /\ x.node.kind = "In" =>
                /\ x.node.left.samples \cap x.node.right.samples = {}
                /\ x.node.left.samples \cup x.node.right.samples = x.node.samples
          /\ LeafSum(x.node) = Cardinality(x.node.samples)
    /\ \A t \in 1..Len(Trees) :
          /\ LeafSum(Trees[t].root) = options.sample_size
          /\ Cardinality(Trees[t].root.samples) = options.sample_size

\* an Internal node with a sample on its boundary and samples on both sides
C6_Witness ==
    \E x \in AllNodes :
        /\ x.node.kind = "In"
        /\ x.node.left.samples # {}
        /\ x.node.right.samples # {}
        /\ \E s \in x.node.samples :
              DotFold(training_data[s], x.node.n, x.node.p, N) = 0

----------------------------------------------------------------------------
(* C7 *)

\* the smallest d with 2^d >= m
C7_CeilLog2(m) == CHOOSE d \in 0..m : (2 ^ d >= m) /\ \A e \in 0..(d - 1) : 2 ^ e < m

C7_MaxTreeDepth ==
    IF options.max_tree_depth.k = "some" THEN options.max_tree_depth.v
    ELSE C7_CeilLog2(options.sample_size)

----------------------------------------------------------------------------
(* C10 *)

\* the nodes a traversal without cap visits, root first
RECURSIVE ScoringPath(_, _)
ScoringPath(node, values) ==
    IF node.kind = "Ex" THEN <<node>>
    ELSE <<node>> \o ScoringPath(SelectChild(node, values), values)

\* the nodes whose construction received sample s, root first
RECURSIVE ConstructionPath(_, _)
ConstructionPath(node, s) ==
    IF node.kind = "Ex" THEN <<node>>
    ELSE <<node>> \o ConstructionPath(IF s \in node.left.samples THEN node.left
                                      ELSE node.right, s)

\* C10: for every built tree and every point of its bootstrap sample, the
\* traversal under a cap greater than the tree's depth takes at every Internal
\* node the child the point was routed to during construction, and ends at an
\* External leaf that holds the point, so with num_samples >= 1.
C10_SameRouting ==
    \A t \in 1..Len(Trees) :
        LET root == Trees[t].root
        IN  \A s \in root.samples :
                LET path == ScoringPath(root, training_data[s])
                    leaf == path[Len(path)]
                IN  /\ path = ConstructionPath(root, s)
                    /\ \A i \in 1..Len(path) : s \in path[i].samples
                    /\ leaf.kind = "Ex"
                    /\ leaf.num_samples >= 1
                    /\ path_length_with_cap(Trees[t], training_data[s],
                                            Height(root) + 1)
                         = FAdd(AsF64(Len(path) - 1),
                                ExternalLength(leaf.num_samples))

\* a scored training point that lies on the boundary of a root that splits
C10_Witness ==
    /\ Scored
    /\ Len(Trees) >= 1
    /\ LET root == Trees[1].root
       IN  /\ root.kind = "In"
           /\ last.max_depth > Height(root)
           /\ root.left.samples # {}
           /\ root.right.samples # {}
           /\ \E s \in root.samples : training_data[s] = probe
           /\ DotFold(probe, root.n, root.p, N) = 0

----------------------------------------------------------------------------
(* C8 *)

\* the reference recursion over (node, depth)
RECURSIVE C8_Reference(_, _, _, _)
C8_Reference(node, values, depth, max_depth) ==
    IF depth >= max_depth THEN Fin(0)
    ELSE IF node.kind = "Ex"
         THEN (IF node.num_samples <= 1 THEN Fin(0) ELSE c_factor(node.num_samples))
    ELSE FAdd(Fin(Scale),
              C8_Reference(IF DotFold(values, node.n, node.p, Len(values)) <= 0
                           THEN node.left ELSE node.right,
                           values, depth + 1, max_depth))

\* the Internal nodes the reference recursion counts
RECURSIVE C8_Counted(_, _, _, _)
C8_Counted(node, values, depth, max_depth) ==
    IF depth >= max_depth \/ node.kind = "Ex" THEN 0
    ELSE 1 + C8_Counted(IF DotFold(values, node.n, node.p, Len(values)) <= 0
                        THEN node.left ELSE node.right,
                        values, depth + 1, max_depth)

\* C8: the path length of the scored point in every tree equals the reference
\* recursion started at (root, 0); the Internal nodes counted are at most
\* min(max_depth, tree depth), and the path length is 0 for max_depth = 0.
C8_PathLength ==
    Scored =>
        \A t \in 1..Len(Trees) :
            LET root == Trees[t].root
                counted == C8_Counted(root, last.values, 0, last.max_depth)
            IN  /\ last.paths[t]
                     = C8_Reference(root, last.values, 0, last.max_depth)
                /\ counted <= last.max_depth
                /\ counted <= Height(root)
                /\ last.paths[t].k = "fin"
                /\ last.paths[t].v >= counted * Scale
                /\ last.max_depth = 0 => last.paths[t] = Fin(0)

\* the cap is reached at an External leaf that holds two samples
C8_Witness ==
    /\ Scored
    /\ Len(Trees) >= 1
    /\ last.max_depth >= 1
    /\ LET path == ScoringPath(Trees[1].root, last.values)
       IN  /\ Len(path) - 1 = last.max_depth
           /\ path[Len(path)].num_samples >= 2
           /\ last.paths[1] = Fin(last.max_depth * Scale)

----------------------------------------------------------------------------
(* C1 *)

\* a score 2^e with e <= 0 that did not underflow: a real number in (0, 1]
InUnitInterval(x) == x.k = "pow2" /\ x.e <= 0

\* C1: every score and score_with_recursion_cap call on a forest that
\* from_slice returned as Ok returns a number in (0, 1], never NaN.
C1_ScoreInUnitInterval == Scored => InUnitInterval(last.value)

----------------------------------------------------------------------------
(* C5 *)

----------------------------------------------------------------------------
(* C4 *)

\* what a tree is made of: node kinds, num_samples, normals and intercepts
RECURSIVE Structure(_)
Structure(node) ==
    IF node.kind = "Ex" THEN [kind |-> "Ex", num_samples |-> node.num_samples]
    ELSE [kind |-> "In", n |-> node.n, p |-> node.p,
          left |-> Structure(node.left), right |-> Structure(node.right)]

ForestStructure(r) ==
    IF r.k = "ok"
    THEN [avg_path_length_c |-> r.forest.avg_path_length_c,
          trees |-> [t \in 1..Len(r.forest.trees) |->
                        Structure(r.forest.trees[t].root)]]
    ELSE r

\* C4: two training runs on the same training data with the same options
\* produce structurally identical trees (node kinds, num_samples, normals and
\* intercepts), and so identical scores for every point.
C4_Deterministic ==
    retrained # None =>
        /\ ForestStructure(retrained) = ForestStructure(result)
        /\ (Built =>
              \A max_depth \in 0..MaxCap :
                  score_with_recursion_cap(retrained.forest, probe, max_depth)
                    = score_with_recursion_cap(result.forest, probe, max_depth))

----------------------------------------------------------------------------
(* C9 *)

\* node \in make_node(training_data, N, samples, depth, ...), node by node
RECURSIVE C9_IsMakeNode(_, _, _, _, _)
C9_IsMakeNode(node, samples, current_tree_depth, max_tree_depth, extension_level) ==
    IF Terminal(current_tree_depth, max_tree_depth, Cardinality(samples))
    THEN node = ExNode(samples)
    ELSE /\ node.kind = "In"
         /\ node.samples = samples
         /\ node.p \in Intercepts(training_data, samples, N)
         /\ node.n \in Normals(N, extension_level)
         /\ C9_IsMakeNode(node.left,
                          Route(training_data, samples, node.n, node.p).left,
                          current_tree_depth + 1, max_tree_depth, extension_level)
         /\ C9_IsMakeNode(node.right,
                          Route(training_data, samples, node.n, node.p).right,
                          current_tree_depth + 1, max_tree_depth, extension_level)

\* no make_node call is deeper than max_tree_depth, no path_length_recurse
\* call deeper than max_depth, and what the calls return is what the
\* recursive definitions give
C9_RecursionBounded ==
    /\ \A i \in 1..Len(stack) :
          /\ stack[i].current_tree_depth = i - 1
          /\ stack[i].current_tree_depth <= stack[i].max_tree_depth
    /\ \A i \in 1..Len(walk) :
          /\ walk[i].depth = i - 1
          /\ walk[i].depth <= walk[i].max_depth
    /\ pc = "built" =>
          C9_IsMakeNode(tree.root, tree.root.samples, 0,
                        ResolveMaxTreeDepth(options), options.extension_level)
    /\ pc = "done" =>
          \E values \in WalkValues, max_depth \in 0..MaxCap :
              ret = path_length_with_cap(tree, values, max_depth)

\* C9: construction and traversal terminate: the recursion depth of make_node
\* never exceeds max_tree_depth, that of path_length_recurse never exceeds
\* max_depth, and each call returns: Tree::new a tree, path_length_with_cap a
\* path length.
C9_Terminates == []C9_RecursionBounded /\ <>(pc = "done")

\* identical points: the working set does not shrink down to the depth limit,
\* and the traversal walks the same chain down to its cap
C9_Witness ==
    /\ pc = "done"
    /\ tree.root.kind = "In"
    /\ tree.root.left.kind = "In"
    /\ tree.root.left.samples = tree.root.samples
    /\ tree.root.left.left.samples = tree.root.samples
    /\ Cardinality(tree.root.samples) >= 2
    /\ ret.v >= 2 * Scale

====
